---- MODULE Spec2Model ----
(***************************************************************************)
(* Deep-paralog cutting (cut_deep_paralogs.py) and Monophyletic-Outgroup   *)
(* pruning (prune_paralogs_mo.py) over the parent-linked phylo3 tree.      *)
(*                                                                         *)
(* A tree is an arena: a record of functions over the node handles 1..k.   *)
(*   parent[n]   handle of the parent, 0 for None                          *)
(*   children[n] the ordered child list (nchildren is its length)          *)
(*   length[n]   branch length above n, in whole length units              *)
(*   istip[n]    the flag the parser sets on tips (never updated later)    *)
(*   label[n]    the label split at ".", <<>> for None                     *)
(* A Python exception is modelled by the err field of an operation's       *)
(* result; the caller's action then moves to pc = "crashed".               *)
(***************************************************************************)
EXTENDS Integers, Sequences, FiniteSets, TLC

\* ------------------------------------------------------------------ bounds

\* Largest number of nodes (tips and internal nodes) of an input tree of the
\* cutting stage.
MaxCutNodes == 13
\* Largest number of internal branches of an input tree of the cutting stage
\* whose length is not the unit length.
MaxLong == 2
\* Largest number of nodes of an input tree of the MO stage.
MaxMONodes == 10
\* Largest number of lines of a membership file.
MaxLines == 4
\* The internal-branch-length cutoff passed on the command line.
Cutoff == 2
\* The minimum number of taxa the engine hard-codes.
HardMinTaxa == 4

\* ------------------------------------------------------------------ helpers

NoNode == 0
NoLabel == <<>>

RECURSIVE Flatten(_)
Flatten(ss) == IF ss = <<>> THEN <<>> ELSE Head(ss) \o Flatten(Tail(ss))

Range(s) == {s[i] : i \in 1..Len(s)}

Without(s, x) == SelectSeq(s, LAMBDA y : y # x)

\* ------------------------------------------------------------------ phylo3.Node

nchildren(T, n) == Len(T.children[n])

\* Node.add_child: append, set the child's parent.
add_child(T, p, c) ==
    [T EXCEPT !.children[p] = Append(@, c), !.parent[c] = p]

\* Node.remove_child: drop from the child list, clear the child's parent.
remove_child(T, p, c) ==
    [T EXCEPT !.children[p] = Without(@, c), !.parent[c] = NoNode]

\* Node.prune: detach from the parent if there is one; returns the parent.
prune(T, n) ==
    IF T.parent[n] # NoNode THEN remove_child(T, T.parent[n], n) ELSE T

\* Node.leaves: the nodes below n (n included) that have no children, left to right.
RECURSIVE leaves(_, _)
leaves(T, n) ==
    IF T.children[n] = <<>> THEN <<n>>
    ELSE Flatten([i \in 1..Len(T.children[n]) |-> leaves(T, T.children[n][i])])

\* Node.iternodes, pre-order: n, then each child's nodes in child order.
RECURSIVE iternodes(_, _)
iternodes(T, n) ==
    <<n>> \o Flatten([i \in 1..Len(T.children[n]) |-> iternodes(T, T.children[n][i])])

\* The path from n up through the parent links to the node without a parent.
RECURSIVE rootpath(_, _)
rootpath(T, n) ==
    IF T.parent[n] = NoNode THEN <<n>> ELSE <<n>> \o rootpath(T, T.parent[n])

\* phylo3.reroot's loop over the reversed path v: step i turns the edge
\* between cp = v[i] and node = v[i+1] around.
RECURSIVE rerootSteps(_, _, _)
rerootSteps(T, v, i) ==
    IF i >= Len(v) THEN T
    ELSE LET cp == v[i]
             node == v[i + 1]
             T1 == remove_child(T, cp, node)
             T2 == add_child(T1, node, cp)
             T3 == [T2 EXCEPT !.length[cp] = T2.length[node],
                              !.label[cp] = T2.label[node]]
         IN  rerootSteps(T3, v, i + 1)

Reverse(s) == [i \in 1..Len(s) |-> s[Len(s) + 1 - i]]

\* phylo3.reroot(oldroot, newroot): the tree afterwards; the call returns newroot.
reroot(T, oldroot, newroot) == rerootSteps(T, Reverse(rootpath(T, newroot)), 1)

\* ------------------------------------------------------------------ tree utilities

get_name(label) == Head(label)

get_front_labels(T, n) ==
    LET lv == leaves(T, n) IN [i \in 1..Len(lv) |-> T.label[lv[i]]]

get_front_names(T, n) ==
    LET labels == get_front_labels(T, n) IN [i \in 1..Len(labels) |-> get_name(labels[i])]

count_taxa(T, n) == Cardinality(Range(get_front_names(T, n)))

remove_kink_LeavesKink(T, node, curroot) ==
    [err |-> FALSE, T |-> T, node |-> node, curroot |-> curroot]

remove_kink_KeepsChildLength(T, node, curroot) ==
    LET moves == node = curroot /\ nchildren(T, curroot) = 2
        target == IF T.istip[T.children[curroot][1]] THEN T.children[curroot][2]
                  ELSE T.children[curroot][1]
        T1 == IF moves THEN reroot(T, curroot, target) ELSE T
        root1 == IF moves THEN target ELSE curroot
    IN  IF T1.children[node] = <<>> \/ T1.parent[node] = NoNode
        THEN [err |-> TRUE, T |-> T1, node |-> node, curroot |-> root1]
        ELSE LET child == T1.children[node][1]
                 par == T1.parent[node]
                 T2 == remove_child(T1, par, node)
                 T3 == add_child(T2, par, child)
             IN  [err |-> child \in Range(T2.children[par]),
                  T |-> T3, node |-> child, curroot |-> root1]

\* remove_kink(node, curroot): [err, T, node, curroot].
remove_kink(T, node, curroot) ==
    LET moves == node = curroot /\ nchildren(T, curroot) = 2
        target == IF T.istip[T.children[curroot][1]] THEN T.children[curroot][2]
                  ELSE T.children[curroot][1]
        T1 == IF moves THEN reroot(T, curroot, target) ELSE T
        root1 == IF moves THEN target ELSE curroot
    IN  IF T1.children[node] = <<>> \/ T1.parent[node] = NoNode
        THEN [err |-> TRUE, T |-> T1, node |-> node, curroot |-> root1]
        ELSE LET child == T1.children[node][1]
                 len == T1.length[node] + T1.length[child]
                 par == T1.parent[node]
                 T2 == remove_child(T1, par, node)
                 T3 == add_child(T2, par, child)
                 T4 == [T3 EXCEPT !.length[child] = len]
             IN  [err |-> child \in Range(T2.children[par]),
                  T |-> T4, node |-> child, curroot |-> root1]

\* ------------------------------------------------------------------ input trees

\* The lengths an internal branch of an input tree may have: a short one, one
\* equal to the cutoff, and the smallest one above it.
BranchLengths == {1, Cutoff, Cutoff + 1}

\* Pre-order arity words of m binary subtrees in a row, k nodes in all.
RECURSIVE Forests(_, _)
Forests(k, m) ==
    IF k = 0 THEN (IF m = 0 THEN {<<>>} ELSE {})
    ELSE IF m = 0 \/ m > k THEN {}
    ELSE {<<0>> \o s : s \in Forests(k - 1, m - 1)}
         \cup {<<2>> \o s : s \in Forests(k - 1, m + 1)}

\* The trees with k nodes, as pre-order arity words: a root of two children, or
\* of three, and binary below the root.
ShapesOf(k) ==
    {<<2>> \o s : s \in Forests(k - 1, 2)} \cup {<<3>> \o s : s \in Forests(k - 1, 3)}

\* Parents of the nodes j.. of word w: open is the stack of <<node, children
\* still to come>>, acc the parents found so far.
RECURSIVE ParentsFrom(_, _, _, _)
ParentsFrom(w, j, open, acc) ==
    IF j > Len(w) THEN acc
    ELSE LET top == Len(open)
             p == IF top = 0 THEN NoNode ELSE open[top][1]
             rest == IF top = 0 THEN <<>>
                     ELSE IF open[top][2] = 1 THEN SubSeq(open, 1, top - 1)
                     ELSE [open EXCEPT ![top] = <<@[1], @[2] - 1>>]
             open1 == IF w[j] > 0 THEN Append(rest, <<j, w[j]>>) ELSE rest
         IN  ParentsFrom(w, j + 1, open1, Append(acc, p))

TipsOf(w) == {j \in 1..Len(w) : w[j] = 0}

\* Rank of tip j among the tips of w, in reading order.
TipRank(w, j) == Cardinality({t \in TipsOf(w) : t <= j})

\* newick3.parse: the arena of the tree written as word w, with the given
\* branch lengths and tip labels. The root carries no length (phylo3's 0).
parse(w, lens, labels) ==
    LET par == ParentsFrom(w, 1, <<>>, <<>>)
    IN  [parent   |-> par,
         children |-> [i \in 1..Len(w) |->
                          SelectSeq([j \in 1..Len(w) |-> j], LAMBDA j : par[j] = i)],
         length   |-> [j \in 1..Len(w) |-> IF j = 1 THEN 0 ELSE lens[j]],
         istip    |-> [j \in 1..Len(w) |-> w[j] = 0],
         label    |-> [j \in 1..Len(w) |-> IF w[j] = 0 THEN labels[j] ELSE NoLabel]]

InnerOf(w) == {j \in 2..Len(w) : w[j] # 0}

\* Branch lengths of an input of the cutting stage: tips have length 1.
CutLengths(w) ==
    {[j \in 1..Len(w) |-> IF j \in InnerOf(w) THEN f[j] ELSE 1] :
        f \in {g \in [InnerOf(w) -> BranchLengths] :
                  Cardinality({j \in InnerOf(w) : g[j] # 1}) <= MaxLong}}

\* Tip labels "<taxon>.<copy>": taxa repeat with the given period along the tips.
CutLabels(w, period) ==
    [j \in 1..Len(w) |->
        IF w[j] = 0 THEN <<((TipRank(w, j) - 1) % period) + 1, TipRank(w, j)>>
        ELSE NoLabel]

TaxaPeriods == {HardMinTaxa - 1, HardMinTaxa + 1}

MinTaxaChoices == {HardMinTaxa - 1, HardMinTaxa}

\* ------------------------------------------------------------------ state

VARIABLES
    pc,                  \* position of the program
    T,                   \* the node arena
    intree,              \* the arena as parsed (never changed)
    in_out_file,         \* MO: the lines of the membership file
    kinks,               \* log of the remove_kink calls
    curroot,             \* the root the running function holds
    minimum_taxa,        \* args.minimum_number_taxa / args.minimum_taxa
    subtrees,            \* cut_long_internal_branches: the kept list
    subtrees_discarded,  \* cut_long_internal_branches: newick -> reason
    cuts,                \* log of the node.prune() calls of the engine
    returned_labels,     \* the tip labels of each kept subtree when the engine returns
    subtree_files,       \* cut main: the .subtree files written, in order
    subtrees_discarded_min_taxa_filtering,  \* cut main: newick -> reason
    ingroups,            \* MO: the ingroup taxa of the membership file
    outgroups,           \* MO: the outgroup taxa of the membership file
    records,             \* MO: the report dictionaries that hold this tree
    reroot_file,         \* MO: the tree written to .reroot (<<>> if none)
    ortho_file,          \* MO: the tree written to .ortho.tre (<<>> if none)
    onetoone_file,       \* MO: the input was copied to .1to1ortho.tre
    ortho,               \* MO: the root prune_paralogs_from_rerooted_homotree returned
    scanned              \* MO: the monophyly scan of the rerooting ran

writevars == <<returned_labels, subtree_files, subtrees_discarded_min_taxa_filtering>>

cutvars == <<subtrees, subtrees_discarded, cuts, writevars>>

movars == <<ingroups, outgroups, records, reroot_file, ortho_file, onetoone_file,
            ortho, scanned>>

vars == <<pc, T, intree, in_out_file, kinks, curroot, minimum_taxa, cutvars, movars>>

\* newick3.tostring, as far as two strings are equal or not: the tip labels in
\* reading order (tip labels are unique in a tree).
tostring(t, n) == get_front_labels(t, n)

\* dict assignment d[key] = reason on a list of [key, reason] entries.
Assign(d, key, reason) ==
    IF \E i \in 1..Len(d) : d[i].key = key
    THEN [i \in 1..Len(d) |-> IF d[i].key = key THEN [key |-> key, reason |-> reason] ELSE d[i]]
    ELSE Append(d, [key |-> key, reason |-> reason])

InitCut ==
    /\ \E k \in 4..MaxCutNodes : \E w \in ShapesOf(k) : \E lens \in CutLengths(w) :
       \E period \in TaxaPeriods :
          /\ T = parse(w, lens, CutLabels(w, period))
          /\ intree = T
    /\ curroot = 1
    /\ minimum_taxa \in MinTaxaChoices
    /\ pc = "cut_main"
    /\ subtrees = <<>>
    /\ subtrees_discarded = <<>>
    /\ cuts = <<>>
    /\ returned_labels = <<>>
    /\ subtree_files = <<>>
    /\ subtrees_discarded_min_taxa_filtering = <<>>
    /\ kinks = <<>>
    /\ in_out_file = <<>>
    /\ ingroups = {}
    /\ outgroups = {}
    /\ records = {}
    /\ reroot_file = <<>>
    /\ ortho_file = <<>>
    /\ onetoone_file = FALSE
    /\ ortho = NoNode
    /\ scanned = FALSE

\* main, cut_deep_paralogs.py: the minimum-taxa check before the engine is called.
CutMain ==
    /\ pc = "cut_main"
    /\ pc' = IF count_taxa(T, curroot) < minimum_taxa THEN "cut_skipped" ELSE "cut_scan"
    /\ UNCHANGED <<T, intree, in_out_file, kinks, curroot, minimum_taxa, cutvars, movars>>

\* Index of the first element of seq that is one of hits, 0 if none is: where
\* a for loop over seq stops at its first hit.
FirstIndex(seq, hits) ==
    IF \E i \in 1..Len(seq) : seq[i] \in hits
    THEN CHOOSE i \in 1..Len(seq) : seq[i] \in hits /\ \A h \in 1..(i - 1) : seq[h] \notin hits
    ELSE 0

\* Mutant of TooLong: a branch equal to the cutoff counts as too long.
TooLong_AtLeast(len) == len >= Cutoff

\* The comparison of a branch length with the cutoff.
TooLong(len) == len > Cutoff

\* Mutant of EnoughTaxa: exactly 4 taxa are not enough.
EnoughTaxa_Above(count) == count > HardMinTaxa

\* The comparison of a unique-taxon count with the engine's minimum.
EnoughTaxa(count) == count >= HardMinTaxa

\* The scan stops at a non-tip, non-root node that is a kink or has no two
\* children to read, or whose branch is too long.
ScanStops(t, root, n) ==
    ~t.istip[n] /\ n # root /\ (nchildren(t, n) < 2 \/ TooLong(t.length[n]))

SplitsChildren_AtLeast(t, n) ==
    /\ ~t.istip[t.children[n][1]]
    /\ ~t.istip[t.children[n][2]]
    /\ t.length[t.children[n][1]] + t.length[t.children[n][2]] >= Cutoff

\* Both children are non-tips and their branches together exceed the cutoff.
SplitsChildren(t, n) ==
    LET child0_node == t.children[n][1]
        child1_node == t.children[n][2]
    IN  /\ ~t.istip[child0_node]
        /\ ~t.istip[child1_node]
        /\ t.length[child0_node] + t.length[child1_node] > Cutoff

\* Mutant of Candidate: a child below the minimum is dropped without a record.
Candidate_DropsSilently(t, c, which, kept, dropped) ==
    IF EnoughTaxa(count_taxa(t, c))
    THEN [kept |-> Append(kept, c), dropped |-> dropped]
    ELSE [kept |-> kept, dropped |-> dropped]

\* Mutant of Candidate: counts the tips, paralogs included, not the unique taxa.
Candidate_CountsTips(t, c, which, kept, dropped) ==
    IF EnoughTaxa(Len(get_front_names(t, c)))
    THEN [kept |-> Append(kept, c), dropped |-> dropped]
    ELSE [kept |-> kept, dropped |-> Assign(dropped, tostring(t, c), which)]

\* Keep or discard one child of a split node: [kept, dropped] after it.
Candidate(t, c, which, kept, dropped) ==
    IF EnoughTaxa(count_taxa(t, c))
    THEN [kept |-> Append(kept, c), dropped |-> dropped]
    ELSE [kept |-> kept, dropped |-> Assign(dropped, tostring(t, c), which)]

\* What the engine records for the too-long node n: [kept, dropped].
Recorded(t, n, kept, dropped) ==
    IF SplitsChildren(t, n)
    THEN LET r0 == Candidate(t, t.children[n][1], "child0_node has fewer than 4 taxa",
                             kept, dropped)
         IN  Candidate(t, t.children[n][2], "child1_node has fewer than 4 taxa",
                       r0.kept, r0.dropped)
    ELSE [kept |-> Append(kept, n), dropped |-> dropped]

\* The log entry of the call remove_kink(node, root) on tree t with result r:
\* the node and its children with their branch lengths when the call is made,
\* and the node the call returns with its branch length.
KinkCall(t, node, root, r) ==
    [node |-> node,
     isroot |-> node = root,
     length |-> t.length[node],
     children |-> t.children[node],
     child_lengths |-> [i \in 1..nchildren(t, node) |-> t.length[t.children[node][i]]],
     returned |-> r.node,
     returned_length |-> r.T.length[r.node],
     err |-> r.err]

\* cut_long_internal_branches: one pass of the while loop, that is one scan of
\* the nodes up to its break (or to its end, which ends the loop).
CutScan ==
    /\ pc = "cut_scan"
    /\ \E order \in {iternodes(T, curroot)} :
       \E at \in {FirstIndex(order, {n \in Range(order) : ScanStops(T, curroot, n)})} :
           IF at = 0
           THEN /\ pc' = "cut_residue"
                /\ UNCHANGED <<T, curroot, subtrees, subtrees_discarded, cuts, kinks>>
           ELSE LET node == order[at] IN
                IF nchildren(T, node) = 1
                THEN LET r == remove_kink(T, node, curroot)
                     IN  /\ T' = r.T
                         /\ curroot' = r.curroot
                         /\ pc' = IF r.err THEN "cut_crashed" ELSE "cut_scan"
                         /\ kinks' = Append(kinks, KinkCall(T, node, curroot, r))
                         /\ UNCHANGED <<subtrees, subtrees_discarded, cuts>>
                ELSE IF nchildren(T, node) = 0
                THEN /\ pc' = "cut_crashed"
                     /\ UNCHANGED <<T, curroot, subtrees, subtrees_discarded, cuts, kinks>>
                ELSE \E rec \in {Recorded(T, node, subtrees, subtrees_discarded)} :
                     \E T1 \in {prune(T, node)} :
                     \E r \in {remove_kink(T1, T.parent[node], curroot)} :
                     LET more == Len(leaves(T1, curroot)) > 2
                     IN  /\ subtrees' = rec.kept
                         /\ subtrees_discarded' = rec.dropped
                         /\ cuts' = Append(cuts, [node |-> node, length |-> T.length[node],
                                                  split |-> SplitsChildren(T, node)])
                         /\ kinks' = IF more
                                     THEN Append(kinks, KinkCall(T1, T.parent[node], curroot, r))
                                     ELSE kinks
                         /\ T' = IF more THEN r.T ELSE T1
                         /\ curroot' = IF more THEN r.curroot ELSE curroot
                         /\ pc' = IF ~more THEN "cut_residue"
                                  ELSE IF r.err THEN "cut_crashed" ELSE "cut_scan"
    /\ UNCHANGED <<intree, in_out_file, minimum_taxa, writevars, movars>>

\* cut_long_internal_branches: the residue after the loop, and the return.
CutResidue ==
    /\ pc = "cut_residue"
    /\ IF EnoughTaxa(count_taxa(T, curroot))
       THEN /\ subtrees' = Append(subtrees, curroot)
            /\ UNCHANGED subtrees_discarded
       ELSE /\ subtrees_discarded' =
                   Assign(subtrees_discarded, tostring(T, curroot),
                          "After cutting, remaining tree has fewer than 4 taxa")
            /\ UNCHANGED subtrees
    /\ returned_labels' = [i \in 1..Len(subtrees') |-> get_front_labels(T, subtrees'[i])]
    /\ pc' = "cut_returned"
    /\ UNCHANGED <<T, intree, in_out_file, kinks, curroot, minimum_taxa, cuts, movars,
                   subtree_files, subtrees_discarded_min_taxa_filtering>>

\* main, cut_deep_paralogs.py: the root of a kept subtree is fixed before the
\* subtree is written if it has two children.
FixesRoot(t, subtree) == nchildren(t, subtree) = 2

\* main, cut_deep_paralogs.py: one turn of the loop over the kept subtrees (the
\* turn's index is one more than the subtrees written and discarded so far),
\* or the end of the loop. curroot is the loop's variable subtree; a file is
\* logged with its turn and whether the root was fixed.
CutWrite ==
    /\ pc \in {"cut_returned", "cut_write"}
    /\ LET turn == Len(subtree_files) + Len(subtrees_discarded_min_taxa_filtering) + 1 IN
       IF turn > Len(subtrees)
       THEN /\ pc' = "cut_done"
            /\ UNCHANGED <<T, curroot, kinks, subtree_files,
                           subtrees_discarded_min_taxa_filtering>>
       ELSE \E subtree \in {subtrees[turn]} :
            IF count_taxa(T, subtree) >= minimum_taxa
            THEN IF FixesRoot(T, subtree)
                 THEN \E r \in {remove_kink(T, subtree, subtree)} :
                         /\ T' = r.T
                         /\ curroot' = r.curroot
                         /\ kinks' = Append(kinks, KinkCall(T, subtree, subtree, r))
                         /\ IF r.err
                            THEN /\ pc' = "cut_crashed"
                                 /\ UNCHANGED subtree_files
                            ELSE /\ pc' = "cut_write"
                                 /\ subtree_files' =
                                       Append(subtree_files,
                                              [turn |-> turn, fixed |-> TRUE,
                                               newick |-> tostring(r.T, r.curroot)])
                         /\ UNCHANGED subtrees_discarded_min_taxa_filtering
                 ELSE /\ subtree_files' =
                            Append(subtree_files, [turn |-> turn, fixed |-> FALSE,
                                                   newick |-> tostring(T, subtree)])
                      /\ curroot' = subtree
                      /\ pc' = "cut_write"
                      /\ UNCHANGED <<T, kinks, subtrees_discarded_min_taxa_filtering>>
            ELSE /\ subtrees_discarded_min_taxa_filtering' =
                       Assign(subtrees_discarded_min_taxa_filtering, tostring(T, subtree),
                              "Post cut filtering")
                 /\ curroot' = subtree
                 /\ pc' = "cut_write"
                 /\ UNCHANGED <<T, kinks, subtree_files>>
    /\ UNCHANGED <<intree, in_out_file, minimum_taxa, subtrees, subtrees_discarded, cuts,
                   returned_labels, movars>>

NextCut == CutMain \/ CutScan \/ CutResidue \/ CutWrite


SpecCut == InitCut /\ [][NextCut]_vars

\* ------------------------------------------------------------------ MO stage

InNames == <<"A", "B", "C">>
OutNames == <<"O", "P">>

Min(a, b) == IF a < b THEN a ELSE b
Max(a, b) == IF a < b THEN b ELSE a

\* The taxon names of n tips in reading order, up to renaming within the
\* ingroup names and within the outgroup names: i ingroup names and o outgroup
\* names have been used so far, and a new name is always the next unused one.
RECURSIVE TipNames(_, _, _)
TipNames(n, i, o) ==
    IF n = 0 THEN {<<>>}
    ELSE UNION {{<<InNames[k]>> \o s : s \in TipNames(n - 1, Max(i, k), o)} :
                   k \in 1..Min(i + 1, Len(InNames))}
         \cup
         UNION {{<<OutNames[k]>> \o s : s \in TipNames(n - 1, i, Max(o, k))} :
                   k \in 1..Min(o + 1, Len(OutNames))}

\* Tip labels "<taxon>.<copy>" of an input of the MO stage.
MOLabels(w, names) ==
    [j \in 1..Len(w) |->
        IF w[j] = 0 THEN <<names[TipRank(w, j)], TipRank(w, j)>> ELSE NoLabel]

\* Branch lengths of an input of the MO stage: every branch has its own length.
MOLengths(w) == [j \in 1..Len(w) |-> j]

\* The membership files: all ingroup names listed, or the last one left out.
IngroupChoices == {Range(InNames), Range(SubSeq(InNames, 1, Len(InNames) - 1))}

InitMO ==
    /\ \E k \in 3..MaxMONodes : \E w \in ShapesOf(k) :
       \E names \in TipNames(Cardinality(TipsOf(w)), 0, 0) :
          /\ T = parse(w, MOLengths(w), MOLabels(w, names))
          /\ intree = T
    /\ curroot = 1
    /\ minimum_taxa \in MinTaxaChoices
    /\ ingroups \in IngroupChoices
    /\ outgroups = Range(OutNames)
    /\ pc = "mo_read"
    /\ subtrees = <<>>
    /\ subtrees_discarded = <<>>
    /\ cuts = <<>>
    /\ returned_labels = <<>>
    /\ subtree_files = <<>>
    /\ subtrees_discarded_min_taxa_filtering = <<>>
    /\ kinks = <<>>
    /\ in_out_file = <<>>
    /\ records = {}
    /\ reroot_file = <<>>
    /\ ortho_file = <<>>
    /\ onetoone_file = FALSE
    /\ ortho = NoNode
    /\ scanned = FALSE

get_front_outgroup_names(t, n, outs) ==
    SelectSeq(get_front_names(t, n), LAMBDA i : i \in outs)

\* get_back_labels: the labels of the root's tips that are not under n, a set.
get_back_labels(t, n, root) ==
    Range(get_front_labels(t, root)) \ Range(get_front_labels(t, n))

\* get_back_names: one name for each back label (a list in the set's order).
get_back_names(t, n, root) ==
    LET back == get_back_labels(t, n, root) IN [l \in back |-> get_name(l)]

HasDuplicates_MoreThanOne(names) == Len(names) > Cardinality(Range(names)) + 1

\* len(names) > len(set(names)): some name occurs twice.
HasDuplicates(names) == Len(names) > Cardinality(Range(names))

\* Mutant of MOPreCheck: the minimum is checked before the taxon names.
MOPreCheck_MinimumFirst ==
    /\ pc = "mo_read"
    /\ \E names \in {get_front_names(T, curroot)} :
       \E outgroup_names \in {get_front_outgroup_names(T, curroot, outgroups)} :
       \E ignore_1to1_orthologs \in BOOLEAN :
          IF Cardinality(Range(names)) < minimum_taxa
          THEN /\ records' = records \cup {"below_minimum"}
               /\ pc' = "mo_done"
               /\ UNCHANGED onetoone_file
          ELSE IF \E i \in 1..Len(names) : names[i] \notin ingroups /\ names[i] \notin outgroups
          THEN /\ records' = records \cup {"unrecognised"}
               /\ pc' = "mo_done"
               /\ UNCHANGED onetoone_file
          ELSE IF Len(names) = Cardinality(Range(names))
          THEN /\ records' = records \cup {"1to1"}
               /\ onetoone_file' = ~ignore_1to1_orthologs
               /\ pc' = "mo_done"
          ELSE IF Len(outgroup_names) = 0
          THEN /\ records' = records \cup {"no_outgroup"}
               /\ pc' = "mo_done"
               /\ UNCHANGED onetoone_file
          ELSE IF HasDuplicates(outgroup_names)
          THEN /\ records' = records \cup {"duplicate_outgroup"}
               /\ pc' = "mo_done"
               /\ UNCHANGED onetoone_file
          ELSE /\ pc' = "mo_fixroot"
               /\ UNCHANGED <<records, onetoone_file>>
    /\ UNCHANGED <<T, intree, in_out_file, kinks, curroot, minimum_taxa, cutvars, ingroups, outgroups,
                   reroot_file, ortho_file, ortho, scanned>>

\* main, prune_paralogs_mo.py: a tree is read and the pre-checks are run in
\* their order; the first that matches records the tree and ends its turn.
MOPreCheck ==
    /\ pc = "mo_read"
    /\ \E names \in {get_front_names(T, curroot)} :
       \E outgroup_names \in {get_front_outgroup_names(T, curroot, outgroups)} :
       \E ignore_1to1_orthologs \in BOOLEAN :
          IF \E i \in 1..Len(names) : names[i] \notin ingroups /\ names[i] \notin outgroups
          THEN /\ records' = records \cup {"unrecognised"}
               /\ pc' = "mo_done"
               /\ UNCHANGED onetoone_file
          ELSE IF Cardinality(Range(names)) < minimum_taxa
          THEN /\ records' = records \cup {"below_minimum"}
               /\ pc' = "mo_done"
               /\ UNCHANGED onetoone_file
          ELSE IF Len(names) = Cardinality(Range(names))
          THEN /\ records' = records \cup {"1to1"}
               /\ onetoone_file' = ~ignore_1to1_orthologs
               /\ pc' = "mo_done"
          ELSE IF Len(outgroup_names) = 0
          THEN /\ records' = records \cup {"no_outgroup"}
               /\ pc' = "mo_done"
               /\ UNCHANGED onetoone_file
          ELSE IF HasDuplicates(outgroup_names)
          THEN /\ records' = records \cup {"duplicate_outgroup"}
               /\ pc' = "mo_done"
               /\ UNCHANGED onetoone_file
          ELSE /\ pc' = "mo_fixroot"
               /\ UNCHANGED <<records, onetoone_file>>
    /\ UNCHANGED <<T, intree, in_out_file, kinks, curroot, minimum_taxa, cutvars, ingroups, outgroups,
                   reroot_file, ortho_file, ortho, scanned>>

\* main: a root of two children is replaced before the rerooting.
MOFixRoot ==
    /\ pc = "mo_fixroot"
    /\ IF nchildren(T, curroot) = 2
       THEN \E r \in {remove_kink(T, curroot, curroot)} :
               /\ T' = r.T
               /\ curroot' = r.curroot
               /\ kinks' = Append(kinks, KinkCall(T, curroot, curroot, r))
               /\ pc' = IF r.err THEN "mo_crashed" ELSE "mo_reroot"
       ELSE /\ pc' = "mo_reroot"
            /\ UNCHANGED <<T, curroot, kinks>>
    /\ UNCHANGED <<intree, in_out_file, minimum_taxa, cutvars, movars>>

\* The numbers of ingroup and outgroup names in front of and behind node n.
SideCounts(t, n, root, outs) ==
    LET front_names == get_front_names(t, n)
        back_names == get_back_names(t, n, root)
        front_out == Len(SelectSeq(front_names, LAMBDA i : i \in outs))
        back_out == Cardinality({j \in DOMAIN back_names : back_names[j] \in outs})
    IN  [front_in_names  |-> Len(front_names) - front_out,
         front_out_names |-> front_out,
         back_in_names   |-> Cardinality(DOMAIN back_names) - back_out,
         back_out_names  |-> back_out]

OutgroupInFront_Never(c) == FALSE

\* The outgroup is in front of the node and the ingroup behind it.
OutgroupInFront(c) ==
    /\ c.front_in_names = 0 /\ c.front_out_names > 0
    /\ c.back_in_names > 0 /\ c.back_out_names = 0

OutgroupAtBack_Never(c) == FALSE

\* The ingroup is in front of the node and the outgroup behind it.
OutgroupAtBack(c) ==
    /\ c.front_in_names > 0 /\ c.front_out_names = 0
    /\ c.back_in_names = 0 /\ c.back_out_names > 0

SingleOutgroupRoot_TheTip(t, tip) == tip

\* The new root of a tree with a single outgroup tip: the tip's parent.
SingleOutgroupRoot(t, tip) == t.parent[tip]

\* reroot_with_monophyletic_outgroups: [T, root, scanned]; root is NoNode for None.
reroot_with_monophyletic_outgroups(t, root, outs) ==
    LET lv == leaves(t, root)
        outgroup_tips == SelectSeq(lv, LAMBDA l : get_name(t.label[l]) \in outs)
    IN  IF Len(outgroup_tips) = 1
        THEN LET new_root == SingleOutgroupRoot(t, outgroup_tips[1])
             IN  [T |-> reroot(t, root, new_root), root |-> new_root, scanned |-> FALSE]
        ELSE LET order == iternodes(t, root)
                 at == FirstIndex(order, {n \in Range(order) :
                          /\ n # root
                          /\ \/ OutgroupInFront(SideCounts(t, n, root, outs))
                             \/ OutgroupAtBack(SideCounts(t, n, root, outs))})
             IN  IF at = 0
                 THEN [T |-> t, root |-> NoNode, scanned |-> TRUE]
                 ELSE [T |-> reroot(t, root, t.parent[order[at]]),
                       root |-> t.parent[order[at]], scanned |-> TRUE]

\* main: the rerooting, and what main records and writes for its result.
MOReroot ==
    /\ pc = "mo_reroot"
    /\ \E r \in {reroot_with_monophyletic_outgroups(T, curroot, outgroups)} :
          /\ scanned' = r.scanned
          /\ curroot' = r.root
          /\ T' = r.T
          /\ IF r.root # NoNode
             THEN /\ records' = records \cup {"monophyletic"}
                  /\ reroot_file' = <<[T |-> r.T, root |-> r.root]>>
                  /\ pc' = "mo_prune"
             ELSE /\ records' = records \cup {"non_monophyletic"}
                  /\ UNCHANGED reroot_file
                  /\ pc' = "mo_done"
    /\ UNCHANGED <<intree, in_out_file, kinks, minimum_taxa, cutvars, ingroups, outgroups, ortho_file,
                   onetoone_file, ortho>>

NameSet(t, n) == Range(get_front_names(t, n))

\* Mutant of CutSide: a tie is resolved to the later clade.
CutSide_TieToLater(t, a, b) ==
    IF Cardinality(NameSet(t, a)) >= Cardinality(NameSet(t, b)) THEN b ELSE a

\* Of two sibling clades a and b, the one that is cut off: the side with fewer
\* taxa, and the first one if neither has more.
CutSide(t, a, b) ==
    IF Cardinality(NameSet(t, a)) > Cardinality(NameSet(t, b)) THEN b ELSE a

\* The root-level check of two ingroup clades a and b: the tree afterwards.
PruneAtRoot(t, root, a, b) ==
    IF NameSet(t, a) \cap NameSet(t, b) # {}
    THEN remove_child(t, root, CutSide(t, a, b))
    ELSE t

PruneRootLevel_Swallows(t, root, outs) == [err |-> "", T |-> t]

\* prune_paralogs_from_rerooted_homotree, the check at the root: [err, T], err
\* the exception it raises ("" if none).
PruneRootLevel(t, root, outs) ==
    IF nchildren(t, root) < 3 THEN [err |-> "IndexError", T |-> t]
    ELSE LET node0 == t.children[root][1]
             node1 == t.children[root][2]
             node2 == t.children[root][3]
             out0 == Len(get_front_outgroup_names(t, node0, outs))
             out1 == Len(get_front_outgroup_names(t, node1, outs))
             out2 == Len(get_front_outgroup_names(t, node2, outs))
         IN  IF out0 = 0 /\ out1 = 0
             THEN [err |-> "", T |-> PruneAtRoot(t, root, node0, node1)]
             ELSE IF out1 = 0 /\ out2 = 0
             THEN [err |-> "", T |-> PruneAtRoot(t, root, node1, node2)]
             ELSE IF out0 = 0 /\ out2 = 0
             THEN [err |-> "", T |-> PruneAtRoot(t, root, node0, node2)]
             ELSE [err |-> "ValueError", T |-> t]

\* prune_paralogs_from_rerooted_homotree, up to its loop: the early return of a
\* tree without duplicates, or the check at the root.
MOPruneRoot ==
    /\ pc = "mo_prune"
    /\ ortho' = curroot
    /\ IF ~HasDuplicates(get_front_names(T, curroot))
       THEN /\ pc' = "mo_filter"
            /\ UNCHANGED T
       ELSE \E r \in {PruneRootLevel(T, curroot, outgroups)} :
               /\ T' = r.T
               /\ pc' = IF r.err = "" THEN "mo_prune_loop" ELSE "mo_" \o r.err
    /\ UNCHANGED <<intree, in_out_file, kinks, curroot, minimum_taxa, cutvars, ingroups, outgroups, records,
                   reroot_file, ortho_file, onetoone_file, scanned>>

\* Mutant of PruneStops: the scan stops only where the two children hold the
\* same taxon names.
PruneStops_SameNames(t, root, n) ==
    /\ ~t.istip[n] /\ n # root
    /\ \/ nchildren(t, n) < 2
       \/ NameSet(t, t.children[n][1]) = NameSet(t, t.children[n][2])

PruneStops_AnyNode(t, root, n) == ~t.istip[n] /\ n # root

\* The loop's scan stops at a non-tip, non-root node that has no two children
\* to read or whose two children share a taxon name.
PruneStops(t, root, n) ==
    /\ ~t.istip[n] /\ n # root
    /\ \/ nchildren(t, n) < 2
       \/ NameSet(t, t.children[n][1]) \cap NameSet(t, t.children[n][2]) # {}

\* prune_paralogs_from_rerooted_homotree: one pass of the while loop, or the
\* return when no duplicate is left. ortho is the function's root.
MOPruneStep ==
    /\ pc = "mo_prune_loop"
    /\ IF ~HasDuplicates(get_front_names(T, ortho))
       THEN /\ pc' = "mo_filter"
            /\ UNCHANGED <<T, ortho, kinks>>
       ELSE \E order \in {iternodes(T, ortho)} :
            \E at \in {FirstIndex(order, {n \in Range(order) : PruneStops(T, ortho, n)})} :
               IF at = 0
               THEN /\ pc' = "mo_spinning"
                    /\ UNCHANGED <<T, ortho, kinks>>
               ELSE IF nchildren(T, order[at]) < 2
               THEN /\ pc' = "mo_IndexError"
                    /\ UNCHANGED <<T, ortho, kinks>>
               ELSE \E node \in {order[at]} :
                    \E T1 \in {remove_child(T, node,
                                  CutSide(T, T.children[node][1], T.children[node][2]))} :
                    \E r \in {remove_kink(T1, node, ortho)} :
                       /\ T' = r.T
                       /\ kinks' = Append(kinks, KinkCall(T1, node, ortho, r))
                       /\ ortho' = r.curroot
                       /\ pc' = IF r.err THEN "mo_crashed" ELSE "mo_prune_loop"
    /\ UNCHANGED <<intree, in_out_file, curroot, minimum_taxa, cutvars, ingroups, outgroups, records,
                   reroot_file, ortho_file, onetoone_file, scanned>>

FilterCount_IngroupOnly ==
    Cardinality(Range(get_front_names(T, curroot)) \ outgroups)

FilterCount_BeforePruning ==
    Cardinality(Range(get_front_names(reroot_file[1].T, reroot_file[1].root)))

\* The count main compares with the minimum after the pruning.
FilterCount == Cardinality(Range(get_front_names(T, curroot)))

\* main: the minimum-taxa filter on the result of the pruning.
MOFilter ==
    /\ pc = "mo_filter"
    /\ IF FilterCount >= minimum_taxa
       THEN /\ ortho_file' = <<[T |-> T, root |-> ortho]>>
            /\ records' = records \cup {"pruned_above"}
       ELSE /\ records' = records \cup {"pruned_below"}
            /\ UNCHANGED ortho_file
    /\ pc' = "mo_done"
    /\ UNCHANGED <<T, intree, in_out_file, kinks, curroot, minimum_taxa, cutvars, ingroups, outgroups,
                   reroot_file, onetoone_file, ortho, scanned>>

NextMO == MOPreCheck \/ MOFixRoot \/ MOReroot \/ MOPruneRoot \/ MOPruneStep \/ MOFilter

SpecMO == InitMO /\ [][NextMO]_vars

\* ------------------------------------------------------------------ claims: cutting

Nodes(t) == DOMAIN t.parent

Keys(d) == {d[i].key : i \in 1..Len(d)}

\* The engine pruned node n in this step.
CutNow(n) == Len(cuts') = Len(cuts) + 1 /\ cuts'[Len(cuts')].node = n

\* The scan gets as far as node n and reads its length: every non-tip, non-root
\* node before n in the traversal has two children and a branch that is not
\* too long for the cutoff.
ReachedByScan(n) ==
    /\ pc = "cut_scan"
    /\ \E order \in {iternodes(T, curroot)} : \E i \in 1..Len(order) :
          /\ order[i] = n
          /\ ~T.istip[n] /\ n # curroot /\ nchildren(T, n) >= 2
          /\ \A h \in 1..(i - 1) :
                \/ T.istip[order[h]]
                \/ order[h] = curroot
                \/ nchildren(T, order[h]) >= 2 /\ T.length[order[h]] <= Cutoff

C2_KeptMeetMinimum ==
    pc = "cut_returned" =>
        \A i \in 1..Len(subtrees) : count_taxa(T, subtrees[i]) >= minimum_taxa

NoLongBranch(t) ==
    \A n \in Nodes(t) : ~t.istip[n] /\ t.parent[n] # NoNode => t.length[n] <= Cutoff

OneKeptNothingDiscarded ==
    /\ Len(subtrees) = 1
    /\ Range(get_front_labels(T, subtrees[1])) = Range(get_front_labels(intree, 1))
    /\ subtrees_discarded = <<>>

\* C3 (as claimed): with no internal branch above the cutoff and at least the
\* caller's minimum of unique taxa, the engine returns exactly one kept subtree
\* with the tip labels of the input, and an empty discard map.
C3_CleanTreeCallerMinimum ==
    pc = "cut_returned" /\ NoLongBranch(intree)
        /\ count_taxa(intree, 1) >= minimum_taxa
    => OneKeptNothingDiscarded

\* C3 (amended): with no internal branch above the cutoff and at least 4 unique
\* taxa, the engine returns exactly one kept subtree with the tip labels of the
\* input, and an empty discard map.
C3_CleanTreeKeptWhole ==
    pc = "cut_returned" /\ NoLongBranch(intree)
        /\ count_taxa(intree, 1) >= HardMinTaxa
    => OneKeptNothingDiscarded

\* C3 witness: a clean tree came back as the single kept subtree.
C3_Witness ==
    /\ pc = "cut_returned" /\ NoLongBranch(intree)
    /\ count_taxa(intree, 1) >= HardMinTaxa
    /\ \E n \in Nodes(intree) : ~intree.istip[n] /\ intree.length[n] = Cutoff
    /\ Len(subtrees) = 1 /\ subtrees[1] = 1

\* The candidates of this step (the two children of a split node, the residue
\* at the return) are kept exactly when their unique-taxon count reaches m.
CandidatesDecidedBy(m) ==
    /\ \A n \in Nodes(T) : CutNow(n) /\ cuts'[Len(cuts')].split =>
          \A c \in {T.children[n][1], T.children[n][2]} :
             /\ c \in Range(subtrees') <=> count_taxa(T, c) >= m
             /\ tostring(T, c) \in Keys(subtrees_discarded') <=> count_taxa(T, c) < m
    /\ pc = "cut_residue" /\ pc' = "cut_returned" =>
          /\ curroot \in Range(subtrees') <=> count_taxa(T, curroot) >= m
          /\ tostring(T, curroot) \in Keys(subtrees_discarded')
                <=> count_taxa(T, curroot) < m

\* C4 (as claimed): each candidate subtree is kept if and only if its
\* unique-taxon count is at least the caller-supplied minimum.
C4_CallerMinimumDecides == [][CandidatesDecidedBy(minimum_taxa)]_vars

\* C4 (amended): each candidate subtree (each child of a split node, and the
\* final residue) is kept if and only if its unique-taxon count is at least 4,
\* whatever minimum the caller configured.
C4_FixedMinimumDecides == [][CandidatesDecidedBy(HardMinTaxa)]_vars

\* C4 witness: the engine returned after a split of which one child was kept
\* and the other discarded, with a caller's minimum other than 4.
C4_Witness ==
    /\ pc = "cut_returned" /\ minimum_taxa # HardMinTaxa
    /\ \E i \in 1..Len(cuts) : \E c, d \in Nodes(T) :
          /\ cuts[i].split
          /\ c \in Range(T.children[cuts[i].node]) /\ c \in Range(subtrees)
          /\ d \in Range(T.children[cuts[i].node])
          /\ tostring(T, d) \in Keys(subtrees_discarded)

\* C20: when the engine cuts at a node whose branch is too long, it treats the
\* node's two children as separate candidates (each kept or discarded on its
\* own, the node itself not kept) exactly if both children are non-tips and
\* their branch lengths sum to strictly more than the cutoff; otherwise it
\* keeps the whole subtree at the node as one subtree and discards nothing.
C20_SplitRule ==
    [][\A n \in Nodes(T) : CutNow(n) =>
          \E c0 \in {T.children[n][1]} : \E c1 \in {T.children[n][2]} :
             IF ~T.istip[c0] /\ ~T.istip[c1] /\ T.length[c0] + T.length[c1] > Cutoff
             THEN /\ n \notin Range(subtrees')
                  /\ \A c \in {c0, c1} :
                        (c \in Range(subtrees')) # (tostring(T, c) \in Keys(subtrees_discarded'))
                  /\ Len(subtrees') - Len(subtrees)
                        = Cardinality({c \in {c0, c1} : c \in Range(subtrees')})
             ELSE /\ subtrees' = Append(subtrees, n)
                  /\ subtrees_discarded' = subtrees_discarded]_vars

\* The engine has split a node whose children's branches sum to the cutoff
\* plus one, and the node itself is not among the kept subtrees.
C20_Witness ==
    /\ pc = "cut_returned"
    /\ \E i \in 1..Len(cuts) :
          /\ cuts[i].split
          /\ intree.length[intree.children[cuts[i].node][1]]
                + intree.length[intree.children[cuts[i].node][2]] = Cutoff + 1
          /\ cuts[i].node \notin Range(subtrees)

\* ------------------------------------------------------------------ claims: MO stage

\* The tips of the tree under root, and those of them under node n.
TipsUnder(t, n) == Range(leaves(t, n))

IsOutgroupTip(t, l) == get_name(t.label[l]) \in outgroups

\* prune_paralogs_from_rerooted_homotree has returned and main has not yet
\* filtered its result.
PruneReturned == pc = "mo_filter"

\* How often a name occurs among the names.
Occurrences(names, name) == Cardinality({i \in 1..Len(names) : names[i] = name})

\* C5: whenever prune_paralogs_from_rerooted_homotree returns a tree, no
\* ingroup taxon occurs more than once among the tip names of that tree.
C5_NoDuplicateIngroup ==
    PruneReturned =>
        \A name \in ingroups : Occurrences(get_front_names(T, ortho), name) <= 1

\* A tree returned by the pruning after both a cut at the root and a cut in
\* the loop, with an ingroup clade left.
C5_Witness ==
    /\ PruneReturned
    /\ nchildren(T, ortho) = 2
    /\ Len(get_front_names(T, ortho)) + 2 < Len(get_front_names(intree, 1))
    /\ \E name \in ingroups : Occurrences(get_front_names(T, ortho), name) = 1

EightCategories ==
    {"unrecognised", "below_minimum", "1to1", "no_outgroup", "duplicate_outgroup",
     "non_monophyletic", "pruned_above", "pruned_below"}

\* The stage is through with the tree: it went on to the next one, or an
\* exception ended the run.
Processed == pc \in {"mo_done", "mo_crashed", "mo_ValueError", "mo_IndexError"}

\* C6: every tree the MO stage has processed is recorded in exactly one of the
\* eight outcome categories.
C6_ExactlyOneCategory ==
    Processed => Cardinality(records \cap EightCategories) = 1

\* The unique-taxon count of the rerooted tree as written to the .reroot file,
\* before the pruning.
RerootedCount == Cardinality(Range(get_front_names(reroot_file[1].T, reroot_file[1].root)))

\* C7 (as stated): the final filter compares the minimum with the count of the
\* rerooted tree before the pruning, so every tree that reaches the filter is
\* classified pruned-above-minimum.
C7_FilterCountsRerootedTree ==
    (pc = "mo_done" /\ "monophyletic" \in records) =>
        /\ ("pruned_above" \in records) <=> (RerootedCount >= minimum_taxa)
        /\ "pruned_above" \in records

\* C7 (amended): the final filter compares the minimum with the count of the
\* tree after the pruning, which is the returned ortho tree; the tree is
\* pruned-above-minimum exactly if that count reaches the minimum, and
\* pruned-below-minimum otherwise.
C7_FilterCountsPrunedTree ==
    (pc = "mo_done" /\ "monophyletic" \in records) =>
        /\ ortho = curroot
        /\ ("pruned_above" \in records) <=>
               (Cardinality(NameSet(T, ortho)) >= minimum_taxa)
        /\ ("pruned_below" \in records) <=>
               (Cardinality(NameSet(T, ortho)) < minimum_taxa)
        /\ ("pruned_above" \in records) <=> (ortho_file # <<>>)

\* A tree that passed the pre-check and whose rerooted tree has the minimum
\* of taxa, classified pruned-below-minimum after the pruning lost a taxon.
C7_Witness ==
    /\ pc = "mo_done"
    /\ "pruned_below" \in records
    /\ RerootedCount >= minimum_taxa
    /\ Cardinality(NameSet(T, ortho)) < minimum_taxa

\* The children of the root that carry outgroup tips.
OutgroupChildren(t, root) ==
    {i \in 1..nchildren(t, root) :
        \E l \in TipsUnder(t, t.children[root][i]) : IsOutgroupTip(t, l)}

\* C8: when reroot_with_monophyletic_outgroups has returned a root, that root
\* has 3 children of which exactly one carries outgroup tips.
C8_OneOutgroupChildAtRoot ==
    pc = "mo_prune" =>
        /\ nchildren(T, curroot) = 3
        /\ Cardinality(OutgroupChildren(T, curroot)) = 1

\* Node n splits the tips of the tree cleanly: only outgroup tips on one side
\* and only ingroup tips on the other, both sides non-empty.
CleanSplit(t, root, n) ==
    LET front == TipsUnder(t, n)
        back == TipsUnder(t, root) \ front
    IN  /\ front # {} /\ back # {}
        /\ \/ (\A l \in front : IsOutgroupTip(t, l)) /\ (\A l \in back : ~IsOutgroupTip(t, l))
           \/ (\A l \in front : ~IsOutgroupTip(t, l)) /\ (\A l \in back : IsOutgroupTip(t, l))

OutgroupTips(t, root) == {l \in TipsUnder(t, root) : IsOutgroupTip(t, l)}

\* C9: on a tree with two or more outgroup tips the rerooting returns a
\* rerooted tree if some non-root node splits the tips cleanly, and null if
\* none does.
C9_MonophylyDetected ==
    [][(MOReroot /\ Cardinality(OutgroupTips(T, curroot)) >= 2) =>
          IF \E n \in Range(iternodes(T, curroot)) \ {curroot} : CleanSplit(T, curroot, n)
          THEN curroot' # NoNode /\ T'.parent[curroot'] = NoNode
          ELSE curroot' = NoNode]_vars

\* A tree with two outgroup tips has been rerooted after the scan.
C9_Witness ==
    /\ pc = "mo_prune"
    /\ scanned
    /\ Cardinality(OutgroupTips(T, curroot)) >= 2

\* C10: on a tree with exactly one outgroup tip the rerooting returns the node
\* that was the tip's parent as the root, never the tip, and scans nothing.
C10_SingleOutgroupParent ==
    [][(MOReroot /\ Cardinality(OutgroupTips(T, curroot)) = 1) =>
          \A tip \in OutgroupTips(T, curroot) :
             /\ curroot' = T.parent[tip]
             /\ curroot' # tip
             /\ curroot' # NoNode
             /\ T'.parent[curroot'] = NoNode
             /\ tip \in Range(T'.children[curroot'])
             /\ ~scanned']_vars

\* A tree with one outgroup tip has been rerooted at a node that was not its
\* root before.
C10_Witness ==
    /\ pc = "mo_prune"
    /\ ~scanned
    /\ Cardinality(OutgroupTips(T, curroot)) = 1
    /\ curroot # 1
    /\ T.children[1] # <<>>

\* The tip labels of the tree under n, as a set.
LabelsUnder(t, n) == Range(get_front_labels(t, n))

\* C11: whenever reroot_with_monophyletic_outgroups returns a root, the tip
\* labels under it are the tip labels of the tree it was given.
C11_RerootKeepsTips ==
    [][(MOReroot /\ curroot' # NoNode) =>
          LabelsUnder(T', curroot') = LabelsUnder(T, curroot)]_vars

\* A tree of two or more outgroup tips rerooted at a node that was not the
\* root, with all the tips of the input under the new root.
C11_Witness ==
    /\ pc = "mo_prune"
    /\ T.parent[1] # NoNode
    /\ nchildren(intree, 1) = 3
    /\ curroot # 1
    /\ scanned
    /\ LabelsUnder(T, curroot) = LabelsUnder(intree, 1)

\* The tree ((A.1,A.2),(B,(OUT1,OUT2))), OUT1 and OUT2 written O and P.
ExampleWord == <<2, 2, 0, 0, 2, 0, 2, 0, 0>>
ExampleTree == parse(ExampleWord, MOLengths(ExampleWord),
                     MOLabels(ExampleWord, <<"A", "A", "B", "O", "P">>))

\* The MO stage runs on that tree with ingroups A and B, the two outgroups
\* and a minimum of 3 taxa.
Example ==
    /\ intree = ExampleTree
    /\ ingroups = {"A", "B"}
    /\ outgroups = {"O", "P"}
    /\ minimum_taxa = 3

MOCrashes == {"mo_crashed", "mo_ValueError", "mo_IndexError", "mo_spinning"}

\* C13: on the example the rerooting succeeds, the pruning removes exactly one
\* of the tips A.1 and A.2 and no other tip, the ortho tree is written and the
\* tree is recorded as pruned-above-minimum.
C13_ExamplePruned ==
    Example =>
        /\ pc \notin MOCrashes
        /\ pc = "mo_done" =>
              /\ "monophyletic" \in records
              /\ reroot_file # <<>>
              /\ \E gone \in {<<"A", 1>>, <<"A", 2>>} :
                    /\ LabelsUnder(T, ortho) = LabelsUnder(intree, 1) \ {gone}
                    /\ LabelsUnder(ortho_file[1].T, ortho_file[1].root)
                          = LabelsUnder(intree, 1) \ {gone}
              /\ records \cap EightCategories = {"pruned_above"}

\* The example has run to its end and its ortho tree of four tips is written.
C13_Witness ==
    /\ Example
    /\ pc = "mo_done"
    /\ ortho_file # <<>>
    /\ Len(leaves(ortho_file[1].T, ortho_file[1].root)) = 4

\* C14 (as stated): on the example, the unique-taxon count that main compares
\* with the minimum after the pruning is 3.
C14_ExampleCountThree ==
    [][(MOFilter /\ Example) => FilterCount = 3]_vars

\* C14 (amended): on the example, the unique-taxon count that main compares
\* with the minimum after the pruning is 4 (A, B and the two outgroup taxa);
\* it reaches the minimum and the tree is written.
C14_ExampleCountFour ==
    [][(MOFilter /\ Example) =>
          /\ FilterCount = 4
          /\ Range(get_front_names(T, curroot)) = {"A", "B", "O", "P"}
          /\ ortho_file' # <<>>]_vars

\* The example has passed the filter with its four taxa.
C14_Witness ==
    /\ Example
    /\ pc = "mo_done"
    /\ "pruned_above" \in records
    /\ Cardinality(NameSet(T, curroot)) = 4

\* C17: every outgroup tip of the tree given to
\* prune_paralogs_from_rerooted_homotree is a tip of the tree it returns.
C17_OutgroupTipsKept ==
    PruneReturned =>
        \A l \in OutgroupTips(reroot_file[1].T, reroot_file[1].root) :
            /\ l \in TipsUnder(T, ortho)
            /\ T.label[l] = reroot_file[1].T.label[l]

\* The pruning has returned a tree of two or more outgroup tips after cutting
\* ingroup tips off it.
C17_Witness ==
    /\ PruneReturned
    /\ Cardinality(OutgroupTips(T, ortho)) >= 2
    /\ Len(leaves(T, ortho)) < Len(leaves(reroot_file[1].T, reroot_file[1].root))

\* C18: given a rerooted tree with more than one root child that carries
\* outgroup tips, prune_paralogs_from_rerooted_homotree raises its error and
\* returns nothing; the stage ends there, with no ortho tree written and the
\* tree not recorded as pruned.
C18_OutgroupConflictFatal ==
    [][/\ (MOPruneRoot /\ Cardinality(OutgroupChildren(T, curroot)) > 1) =>
             /\ pc' = "mo_ValueError"
             /\ T' = T
       /\ pc' = "mo_ValueError" =>
             /\ ortho_file' = <<>>
             /\ records' \cap {"pruned_above", "pruned_below"} = {}
       /\ pc = "mo_ValueError" => pc' = "mo_ValueError"]_vars

\* The error was raised on a tree with two root children that carry outgroup
\* tips.
C18_Witness ==
    /\ pc = "mo_ValueError"
    /\ Cardinality(OutgroupChildren(T, curroot)) = 2
    /\ ortho_file = <<>>

\* ------------------------------------------------------------------ claims: remove_kink

\* Both stages: a tree goes through the cutting stage or through the MO stage.
InitAll == InitCut \/ InitMO

NextAll == NextCut \/ NextMO

SpecAll == InitAll /\ [][NextAll]_vars

\* The root of the tree the running function works on.
ActiveRoot == IF pc = "mo_prune_loop" THEN ortho ELSE curroot

\* No node of the tree under root has exactly one child.
NoKinkUnder(t, root) == \A n \in Range(iternodes(t, root)) : nchildren(t, n) # 1

\* remove_kink was called in this step and returned.
KinkRemovedNow == Len(kinks') = Len(kinks) + 1 /\ ~kinks'[Len(kinks')].err

LengthBefore(k) ==
    k.child_lengths[CHOOSE i \in 1..Len(k.children) : k.children[i] = k.returned]

\* C16 (as stated): remove_kink returns a node whose branch length is the sum
\* of the length the node it was called on had and the length its child had,
\* also when it is called on the root with two children.
C16_LengthIsNodePlusChild ==
    \A i \in 1..Len(kinks) : ~kinks[i].err =>
        kinks[i].returned_length = kinks[i].length + LengthBefore(kinks[i])

\* C16 (amended): called on a node with a single child, remove_kink returns
\* that child with the sum of the node's and the child's branch lengths;
\* called on the root with two children, it returns one of the two with the
\* sum of the two children's branch lengths.
C16_LengthConserved ==
    \A i \in 1..Len(kinks) : ~kinks[i].err =>
        IF kinks[i].isroot /\ Len(kinks[i].children) = 2
        THEN /\ kinks[i].returned \in Range(kinks[i].children)
             /\ kinks[i].returned_length
                   = kinks[i].child_lengths[1] + kinks[i].child_lengths[2]
        ELSE /\ kinks[i].children = <<kinks[i].returned>>
             /\ kinks[i].returned_length = kinks[i].length + kinks[i].child_lengths[1]

\* remove_kink has returned from a call on the root with two children and
\* from a call on a node with a single child and a branch length of its own.
C16_Witness ==
    \E i, j \in 1..Len(kinks) :
        /\ ~kinks[i].err /\ kinks[i].isroot /\ Len(kinks[i].children) = 2
        /\ ~kinks[j].err /\ ~kinks[j].isroot /\ kinks[j].length > 0

\* ------------------------------------------------------------------ claims: the cutting scenario

\* The two clades of the scenario: one more and one fewer unique taxa than
\* the engine's minimum.
BigClade == HardMinTaxa + 1
SmallClade == HardMinTaxa - 1

\* The length of the scenario's long branch.
LongLength == Cutoff + 3

\* A caterpillar: no node has more than one child that is not a tip.
IsCaterpillar(w) ==
    LET par == ParentsFrom(w, 1, <<>>, <<>>)
    IN  \A i \in 1..Len(w) : Cardinality({j \in 1..Len(w) : par[j] = i /\ w[j] # 0}) <= 1

\* The caterpillars of n tips, rooted on two or on three children.
Caterpillars(n) == {w \in ShapesOf(2 * n - 1) \cup ShapesOf(2 * n - 2) : IsCaterpillar(w)}

\* The scenario's trees: a caterpillar of BigClade + SmallClade tips of
\* different taxa, unit branch lengths but for one internal branch of
\* LongLength that has BigClade tips on one side and SmallClade on the other.
InitCaterpillar ==
    /\ \E w \in Caterpillars(BigClade + SmallClade) : \E long \in InnerOf(w) :
       \E t \in {parse(w, [j \in 1..Len(w) |-> IF j = long THEN LongLength ELSE 1],
                       CutLabels(w, BigClade + SmallClade))} :
          /\ Len(leaves(t, long)) \in {BigClade, SmallClade}
          /\ T = t
          /\ intree = t
    /\ curroot = 1
    /\ minimum_taxa = HardMinTaxa
    /\ pc = "cut_main"
    /\ subtrees = <<>>
    /\ subtrees_discarded = <<>>
    /\ cuts = <<>>
    /\ returned_labels = <<>>
    /\ subtree_files = <<>>
    /\ subtrees_discarded_min_taxa_filtering = <<>>
    /\ kinks = <<>>
    /\ in_out_file = <<>>
    /\ ingroups = {}
    /\ outgroups = {}
    /\ records = {}
    /\ reroot_file = <<>>
    /\ ortho_file = <<>>
    /\ onetoone_file = FALSE
    /\ ortho = NoNode
    /\ scanned = FALSE

SpecCaterpillar == InitCaterpillar /\ [][NextCut]_vars

\* The number of unique taxa among the tip labels of a discarded subtree.
TaxaOfKey(key) == Cardinality({get_name(key[i]) : i \in 1..Len(key)})

\* C12: on the scenario's trees the engine returns exactly one kept subtree,
\* the one of BigClade taxa, and exactly one discarded subtree, the one of
\* SmallClade taxa, discarded for having fewer than 4 taxa.
C12_OneKeptOneDiscarded ==
    pc = "cut_returned" =>
        /\ Len(subtrees) = 1
        /\ count_taxa(T, subtrees[1]) = BigClade
        /\ Len(subtrees_discarded) = 1
        /\ TaxaOfKey(subtrees_discarded[1].key) = SmallClade
        /\ subtrees_discarded[1].reason \in
              {"child0_node has fewer than 4 taxa", "child1_node has fewer than 4 taxa",
               "After cutting, remaining tree has fewer than 4 taxa"}

\* ------------------------------------------------------------------ the membership file

Tab == "\t"
Newline == "\n"
Whitespace == {" ", Tab, Newline}

\* A line of the file is the sequence of its characters.
\* str.lstrip(): the line without its leading whitespace.
RECURSIVE lstrip(_)
lstrip(line) ==
    IF line # <<>> /\ Head(line) \in Whitespace THEN lstrip(Tail(line)) ELSE line

\* str.strip(): the line without its leading and trailing whitespace.
strip(line) ==
    LET left == lstrip(line)
        right == lstrip(Reverse(left))
    IN  IF right = <<>> THEN <<>> ELSE Reverse(right)

\* The characters as a string.
RECURSIVE Text(_)
Text(chars) == IF chars = <<>> THEN "" ELSE Head(chars) \o Text(Tail(chars))

\* str.split(sep): the fields between the separators, as strings.
RECURSIVE split(_, _, _)
split(chars, sep, field) ==
    IF chars = <<>> THEN <<Text(field)>>
    ELSE IF Head(chars) = sep THEN <<Text(field)>> \o split(Tail(chars), sep, <<>>)
    ELSE split(Tail(chars), sep, Append(field, Head(chars)))

\* line.strip().split("\t")
Sample(line) == split(strip(line), Tab, <<>>)

\* A line shorter than 3 characters is skipped.
SkipsLine(line) == Len(line) < 3

ListedInBoth_Never(ins, outs) == FALSE

\* Some taxon is designated as ingroup and as outgroup.
ListedInBoth(ins, outs) == ins \cap outs # {}

\* parse_ingroup_and_outgroup_file, the loop over the lines from line i on:
\* [exit, ingroups, outgroups], exit being "" or how the run ended.
RECURSIVE ReadLines(_, _, _, _)
ReadLines(lines, i, ins, outs) ==
    IF i > Len(lines) THEN [exit |-> "", ingroups |-> ins, outgroups |-> outs]
    ELSE IF SkipsLine(lines[i]) THEN ReadLines(lines, i + 1, ins, outs)
    ELSE LET sample == Sample(lines[i])
         IN  IF sample[1] \notin {"IN", "OUT"}
             THEN [exit |-> "sys.exit", ingroups |-> ins, outgroups |-> outs]
             ELSE IF Len(sample) < 2
             THEN [exit |-> "IndexError", ingroups |-> ins, outgroups |-> outs]
             ELSE IF sample[1] = "IN"
             THEN ReadLines(lines, i + 1, ins \cup {sample[2]}, outs)
             ELSE ReadLines(lines, i + 1, ins, outs \cup {sample[2]})

\* parse_ingroup_and_outgroup_file: [exit, ingroups, outgroups].
parse_ingroup_and_outgroup_file(lines) ==
    LET read == ReadLines(lines, 1, {}, {})
    IN  IF read.exit = "" /\ ListedInBoth(read.ingroups, read.outgroups)
        THEN [read EXCEPT !.exit = "sys.exit"]
        ELSE read

\* main, prune_paralogs_mo.py: the membership file is parsed before the loop
\* over the tree files; a failure ends the run there.
MOParse ==
    /\ pc = "mo_start"
    /\ \E parsed \in {parse_ingroup_and_outgroup_file(in_out_file)} :
          IF parsed.exit = ""
          THEN /\ ingroups' = parsed.ingroups
               /\ outgroups' = parsed.outgroups
               /\ pc' = "mo_read"
          ELSE /\ pc' = "mo_parse_" \o parsed.exit
               /\ UNCHANGED <<ingroups, outgroups>>
    /\ UNCHANGED <<T, intree, in_out_file, kinks, curroot, minimum_taxa, cutvars, records,
                   reroot_file, ortho_file, onetoone_file, ortho, scanned>>

\* The line "<kind>\t<name>\n".
Designation(kind, name) == kind \o <<Tab, name, Newline>>

\* The lines a membership file is made of: designations of the taxa of the
\* example tree, one with a leading blank, one that makes A an outgroup too,
\* lines that start with another token, with and without a newline, and a
\* designation without a name.
LinePool ==
    {Designation(<<"I", "N">>, "A"), Designation(<<" ", "I", "N">>, "B"),
     Designation(<<"O", "U", "T">>, "O"), Designation(<<"O", "U", "T">>, "P"),
     Designation(<<"O", "U", "T">>, "A"),
     Designation(<<"i", "n">>, "B"),
     <<"X", Newline>>, <<"X", "X">>, <<"X", "X", Newline>>,
     <<"I", "N", Newline>>}

MembershipFiles == UNION {[1..n -> LinePool] : n \in 0..MaxLines}

\* A run of the MO stage from its start: a membership file and the example tree.
InitMembership ==
    /\ in_out_file \in MembershipFiles
    /\ T = ExampleTree
    /\ intree = ExampleTree
    /\ curroot = 1
    /\ minimum_taxa \in MinTaxaChoices
    /\ ingroups = {}
    /\ outgroups = {}
    /\ pc = "mo_start"
    /\ subtrees = <<>>
    /\ subtrees_discarded = <<>>
    /\ cuts = <<>>
    /\ returned_labels = <<>>
    /\ subtree_files = <<>>
    /\ subtrees_discarded_min_taxa_filtering = <<>>
    /\ kinks = <<>>
    /\ records = {}
    /\ reroot_file = <<>>
    /\ ortho_file = <<>>
    /\ onetoone_file = FALSE
    /\ ortho = NoNode
    /\ scanned = FALSE

NextMembership == MOParse \/ NextMO

SpecMembership == InitMembership /\ [][NextMembership]_vars

\* ------------------------------------------------------------------ claims: the membership file

\* A line of 3 or more characters whose first token is neither IN nor OUT.
BadLine(line) == Len(line) >= 3 /\ Sample(line)[1] \notin {"IN", "OUT"}

\* The taxa that the lines of 3 or more characters list under the token kind.
Listed(lines, kind) ==
    {Sample(lines[i])[2] :
        i \in {j \in 1..Len(lines) : /\ Len(lines[j]) >= 3
                                      /\ Len(Sample(lines[j])) >= 2
                                      /\ Sample(lines[j])[1] = kind}}

FatalFile(lines) ==
    \/ \E i \in 1..Len(lines) : BadLine(lines[i])
    \/ Listed(lines, "IN") \cap Listed(lines, "OUT") # {}

\* The run ended while it parsed the membership file.
AbortedAtParse == pc \in {"mo_parse_sys.exit", "mo_parse_IndexError"}

\* C19: a membership file with a line (of 3 or more characters) whose first
\* token is neither IN nor OUT, or with a taxon listed as both IN and OUT, ends
\* the run while the file is parsed: no tree has been read, rerooted, pruned
\* or written, and none is afterwards.
C19_BadMembershipAborts ==
    [][/\ (MOParse /\ FatalFile(in_out_file)) => AbortedAtParse'
       /\ AbortedAtParse' =>
             /\ T' = intree' /\ curroot' = 1 /\ kinks' = <<>>
             /\ records' = {} /\ reroot_file' = <<>> /\ ortho_file' = <<>>
             /\ ~onetoone_file' /\ ortho' = NoNode
       /\ AbortedAtParse => AbortedAtParse']_vars

\* The run was ended by a file that lists A as ingroup and as outgroup and
\* has no line with another token.
C19_Witness ==
    /\ pc = "mo_parse_sys.exit"
    /\ \A i \in 1..Len(in_out_file) : ~BadLine(in_out_file[i])
    /\ "A" \in Listed(in_out_file, "IN") \cap Listed(in_out_file, "OUT")

\* ------------------------------------------------------------------ claims: the audit trail of the cutting

\* The number of records of the engine, kept subtrees and discarded entries
\* together, that hold the tip label l when the engine returns.
RecordsOf(l) ==
    Cardinality({i \in 1..Len(subtrees) : l \in Range(get_front_labels(T, subtrees[i]))})
    + Cardinality({i \in 1..Len(subtrees_discarded) : l \in Range(subtrees_discarded[i].key)})

C22_KinkCollapsedAfterPrune ==
    [][\A n \in Nodes(T) :
          (CutNow(n) /\ Len(leaves(T', curroot')) > 2) =>
              (pc' = "cut_scan" /\ NoKinkUnder(T', curroot'))]_vars

\* ------------------------------------------------------------------ claims: termination of the pruning

\* The number of nodes of the tree under root.
Size(t, root) == Len(iternodes(t, root))

SmallerOrEarlier(t, a, b, x) ==
    LET size_a == Cardinality(NameSet(t, a))
        size_b == Cardinality(NameSet(t, b))
    IN  /\ size_a < size_b => x = a
        /\ size_b < size_a => x = b
        /\ size_a = size_b => x = a

\* The check at the root took a child off the root in this step.
RootDiscardNow ==
    pc = "mo_prune" /\ T'.children[curroot] # T.children[curroot]

\* A pass of the loop took a child off a node in this step.
LoopDiscardNow ==
    pc = "mo_prune_loop" /\ Len(kinks') = Len(kinks) + 1

\* C24: in the check at the root and in the loop of the MO pruning, of two
\* sibling clades that share a taxon name the one with the strictly smaller
\* set of taxon names is discarded, and the earlier one when the sets have
\* the same size.
C24_SmallerOrEarlierDiscarded ==
    [][/\ RootDiscardNow =>
            \E i, j \in 1..nchildren(T, curroot) :
                LET a == T.children[curroot][i]
                    b == T.children[curroot][j]
                IN  /\ i < j
                    /\ Len(get_front_outgroup_names(T, a, outgroups)) = 0
                    /\ Len(get_front_outgroup_names(T, b, outgroups)) = 0
                    /\ NameSet(T, a) \cap NameSet(T, b) # {}
                    /\ \E x \in {a, b} :
                          /\ T'.children[curroot] = Without(T.children[curroot], x)
                          /\ SmallerOrEarlier(T, a, b, x)
       /\ LoopDiscardNow =>
            LET node == kinks'[Len(kinks')].node
                a == T.children[node][1]
                b == T.children[node][2]
            IN  /\ NameSet(T, a) \cap NameSet(T, b) # {}
                /\ \E x \in {a, b} :
                      /\ kinks'[Len(kinks')].children = Without(T.children[node], x)
                      /\ SmallerOrEarlier(T, a, b, x)]_vars

\* The pruning has returned after the check at the root discarded the later
\* and strictly smaller of two ingroup clades, and the loop discarded the
\* earlier of two clades of the same size.
C24_Witness ==
    /\ pc = "mo_filter"
    /\ reroot_file # <<>>
    /\ LET before == reroot_file[1].T
           was == before.children[curroot]
       IN  /\ Len(was) = 3
           /\ \E i, j \in 1..3 :
                 /\ i < j
                 /\ T.children[curroot] = Without(was, was[j])
                 /\ Len(get_front_outgroup_names(before, was[i], outgroups)) = 0
                 /\ Cardinality(NameSet(before, was[j])) < Cardinality(NameSet(before, was[i]))
    /\ \E k \in 1..Len(kinks) :
          /\ ~kinks[k].isroot
          /\ intree.children[kinks[k].node] = <<kinks[k].node + 1, kinks[k].node + 2>>
          /\ intree.istip[kinks[k].node + 1] /\ intree.istip[kinks[k].node + 2]
          /\ kinks[k].children = <<kinks[k].node + 2>>

\* ------------------------------------------------------------------ claims: termination of the cutting

\* A scan of the engine would run to its end: no node stops it.
FullScan(t, root) == \A n \in Range(iternodes(t, root)) : ~ScanStops(t, root, n)

\* C25: cut_long_internal_branches terminates: a scan that sets the flag and
\* so is followed by another scan leaves a tree with fewer nodes (a natural
\* number, so the scans end), and the first scan that runs to its end changes
\* nothing and ends the loop.
C25_CutLoopTerminates ==
    [][pc = "cut_scan" =>
          /\ pc' \in {"cut_scan", "cut_residue", "cut_crashed"}
          /\ pc' = "cut_scan" => Size(T', curroot') < Size(T, curroot)
          /\ FullScan(T, curroot) =>
                pc' = "cut_residue" /\ T' = T /\ curroot' = curroot]_vars

\* The loop has ended by a scan that ran to its end, after two scans that each
\* pruned a node and collapsed the kink it left.
C25_Witness ==
    /\ pc = "cut_residue"
    /\ Len(cuts) = 2
    /\ Len(kinks) = 2
    /\ \A i \in 1..Len(kinks) : ~kinks[i].err
    /\ FullScan(T, curroot)
    /\ Size(T, curroot) < Size(intree, 1)

\* ------------------------------------------------------------------ claims: the pre-checks

\* The pre-checks of the MO stage, each on its own, on the tree as read.
Unrecognised ==
    \E l \in Range(get_front_labels(intree, 1)) :
        get_name(l) \notin ingroups /\ get_name(l) \notin outgroups

BelowMinimum ==
    Cardinality({get_name(l) : l \in Range(get_front_labels(intree, 1))}) < minimum_taxa

OneToOne ==
    \A l, m \in Range(get_front_labels(intree, 1)) : get_name(l) = get_name(m) => l = m

NoOutgroup ==
    \A l \in Range(get_front_labels(intree, 1)) : get_name(l) \notin outgroups

DuplicateOutgroup ==
    \E l, m \in Range(get_front_labels(intree, 1)) :
        l # m /\ get_name(l) = get_name(m) /\ get_name(l) \in outgroups

\* The category of the first pre-check, in the order of the claim, that the
\* tree matches; "" if it matches none.
FirstPreCheck ==
    IF Unrecognised THEN "unrecognised"
    ELSE IF BelowMinimum THEN "below_minimum"
    ELSE IF OneToOne THEN "1to1"
    ELSE IF NoOutgroup THEN "no_outgroup"
    ELSE IF DuplicateOutgroup THEN "duplicate_outgroup"
    ELSE ""

\* C26: the pre-checks are evaluated in the order unrecognised taxon, below
\* minimum, 1:1 ortholog, no outgroup, duplicate outgroup, and the first that
\* matches is the tree's category; a tree that one of them skips is never
\* rerooted or pruned and gets no .reroot and no .ortho output.
C26_FirstPreCheckDecides ==
    pc # "mo_read" =>
        IF FirstPreCheck # ""
        THEN /\ pc = "mo_done"
             /\ records = {FirstPreCheck}
             /\ T = intree /\ curroot = 1 /\ kinks = <<>> /\ ~scanned
             /\ ortho = NoNode
             /\ reroot_file = <<>> /\ ortho_file = <<>>
        ELSE records \cap {"unrecognised", "below_minimum", "1to1", "no_outgroup",
                           "duplicate_outgroup"} = {}

\* A tree that matches three pre-checks at once (below the minimum, without
\* duplicates, without outgroup) has been skipped as below the minimum.
C26_Witness ==
    /\ pc = "mo_done"
    /\ ~Unrecognised /\ BelowMinimum /\ OneToOne /\ NoOutgroup
    /\ records = {"below_minimum"}
    /\ reroot_file = <<>> /\ ortho_file = <<>>

\* ------------------------------------------------------------------ the cutting with a low minimum

\* A minimum number of taxa on the command line that is below the engine's by
\* two: a kept clade of two tips passes main's filter.
LowMinimum == HardMinTaxa - 2

\* The cutting stage run on the input trees of InitCut with the low minimum.
InitLowMinimum ==
    /\ \E k \in 4..MaxCutNodes : \E w \in ShapesOf(k) : \E lens \in CutLengths(w) :
       \E period \in TaxaPeriods :
          /\ T = parse(w, lens, CutLabels(w, period))
          /\ intree = T
    /\ curroot = 1
    /\ minimum_taxa = LowMinimum
    /\ pc = "cut_main"
    /\ subtrees = <<>>
    /\ subtrees_discarded = <<>>
    /\ cuts = <<>>
    /\ returned_labels = <<>>
    /\ subtree_files = <<>>
    /\ subtrees_discarded_min_taxa_filtering = <<>>
    /\ kinks = <<>>
    /\ in_out_file = <<>>
    /\ ingroups = {}
    /\ outgroups = {}
    /\ records = {}
    /\ reroot_file = <<>>
    /\ ortho_file = <<>>
    /\ onetoone_file = FALSE
    /\ ortho = NoNode
    /\ scanned = FALSE

SpecLowMinimum == InitLowMinimum /\ [][NextCut]_vars

\* ------------------------------------------------------------------ claims: the written subtrees

\* File f was written for a child that the engine kept when it split the
\* children of a too-long node, so a child still linked to its pruned parent.
KeptWhileLinked(f) ==
    \E i \in 1..Len(cuts) :
        cuts[i].split /\ intree.parent[subtrees[f.turn]] = cuts[i].node

\* C27: a subtree whose bifurcating root main fixes before writing it is
\* written with exactly the tip labels it had when the engine returned it,
\* also when it is a child kept while linked to its pruned parent and sibling.
C27_WrittenTipsAsReturned ==
    \A k \in 1..Len(subtree_files) :
        subtree_files[k].fixed =>
            /\ Len(subtree_files[k].newick) = Len(returned_labels[subtree_files[k].turn])
            /\ Range(subtree_files[k].newick) = Range(returned_labels[subtree_files[k].turn])

\* Main has fixed the root of a child kept while linked to its pruned parent
\* and written it, with the tip labels it had when the engine returned.
LinkedChildWrittenWhole ==
    \E k \in 1..Len(subtree_files) :
        /\ subtree_files[k].fixed
        /\ KeptWhileLinked(subtree_files[k])
        /\ Range(subtree_files[k].newick) = Range(returned_labels[subtree_files[k].turn])

====
